---- MODULE Spec2Model ----
(***************************************************************************)
(* Conformer encoder block of streaming-asr.                               *)
(*                                                                         *)
(*   ConformerBlock       src/parts/modules/conformer/conformer_block.py   *)
(*   ConvolutionModule    src/conformer/convolution.py                     *)
(*                                                                         *)
(* A tensor is modelled by its shape (a triple of positive integers) and   *)
(* by the symbolic expression that computed it from the call's input, so   *)
(* that both the shape contracts and the residual arithmetic of a forward  *)
(* call can be compared with the documented ones.  One forward call is a   *)
(* sequence of steps, one per statement of ConformerBlock.forward; the     *)
(* convolution module is stepped through its nn.Sequential chain.          *)
(***************************************************************************)
EXTENDS Integers, Sequences, FiniteSets, TLC

\* ------------------------------------------------------------- bounds
MaxDim == 4
MaxTime == 4
MaxBatch == 2
MaxHeads == 2
MaxStride == 2
MaxPadding == 1
MaxTracked == 1
MaxKernel == 3
MaxLen == 8
MaxChannels == 2

\* ------------------------------------------------------ program constants
\* dw_ksize: int = 31
DefaultDwKsize == 31

VARIABLES
    constructed,        \* a ConformerBlock object exists
    ctor_error,         \* exception raised by the last ConformerBlock(...) call
    encoder_dim, attention_heads, dw_ksize, conv_model_stride, padding,
    conv_first,         \* self.conv_first
    flag_given,         \* apply_conv_first was passed by the caller
    residual_half_step, \* residual_half_step of self.ff1, self.conv_module, self.ff2
    training,           \* nn.Module.training
    num_batches_tracked,\* running-statistics buffer of self.batch_norm
    pc,                 \* position in ConformerBlock.forward
    input,              \* argument of the forward call in progress
    x, identity, out,   \* locals of ConformerBlock.forward
    ret_var,            \* local the conv_module call is assigned to
    cstep,              \* position in the conv_module call
    cur, c_identity, conv_output, \* locals of ConvolutionModule.forward
    stages,             \* stages of the block completed in this call
    conv_stages,        \* layers of the nn.Sequential run in this call
    raised,             \* exception that ended the forward call
    sub                 \* the ConvSubSampling front end and its forward call

cfg_vars == <<constructed, ctor_error, encoder_dim, attention_heads, dw_ksize,
              conv_model_stride, padding, conv_first, flag_given, residual_half_step>>
call_vars == <<pc, input, x, identity, out, ret_var, cstep, cur, c_identity,
               conv_output, stages, conv_stages, raised>>
vars == <<cfg_vars, training, num_batches_tracked, call_vars, sub>>

\* ------------------------------------------------------------ tensors
\* A symbolic value: an operator applied to argument values; k is the
\* scalar of a scaling, as <<numerator, denominator>>.
Tm(op, args) == [op |-> op, k |-> <<1, 1>>, args |-> args]
Scale(h, t) == [op |-> "scale", k |-> h, args |-> <<t>>]
Add(a, b) == Tm("add", <<a, b>>)

Tensor(shape, val) == [shape |-> shape, val |-> val]
NoTensor == Tensor(<<>>, Tm("unbound", <<>>))
InputTensor(b, t, d) == Tensor(<<b, t, d>>, Tm("x", <<>>))

\* A failed shape computation is the empty tuple.
Failed(shape) == shape = <<>>

Half == <<1, 2>>
Full == <<1, 1>>
\* ------------------------------------------------------- torch layers
\* Output shape of nn.LayerNorm(normalized_shape = n): the last axis must be n.
LayerNormShape(n, s) == IF s[3] = n THEN s ELSE <<>>

\* Output shape of nn.Conv1d on (N, C_in, L): axis 2 must be in_channels and
\* L_out = floor((L + 2 * padding - kernel_size) / stride) + 1.
Conv1dShape(l, s) ==
    IF s[2] # l.in_channels \/ s[3] + 2 * l.padding < l.kernel_size
    THEN <<>>
    ELSE <<s[1], l.out_channels,
           ((s[3] + 2 * l.padding - l.kernel_size) \div l.stride) + 1>>

\* Output shape of nn.GLU(dim): axis dim is split in two halves.
GLUShape(dim, s) ==
    IF s[dim] % 2 # 0 THEN <<>> ELSE [s EXCEPT ![dim] = s[dim] \div 2]

\* Output shape of nn.BatchNorm1d(n) on (N, C, L): axis 2 must be n, and in
\* training mode there must be more than one value per channel.
BatchNormShape(n, mode, s) ==
    IF s[2] # n \/ (mode /\ s[1] * s[3] = 1) THEN <<>> ELSE s

\* nn.Dropout: the identity in evaluation mode, a random mask in training.
Dropout(mode, name, t) == IF mode THEN Tm(name, <<t>>) ELSE t

\* Shape of a + b under torch broadcasting: per axis equal, or one of them 1.
Max(a, b) == IF a >= b THEN a ELSE b
BroadcastShape(a, b) ==
    IF \A i \in 1..3 : a[i] = b[i] \/ a[i] = 1 \/ b[i] = 1
    THEN [i \in 1..3 |-> Max(a[i], b[i])]
    ELSE <<>>

\* ------------------------------------------------- ConvolutionModule
Layer(name, kind, cin, cout, ksize, stride, pad, groups, dim) ==
    [name |-> name, kind |-> kind, in_channels |-> cin, out_channels |-> cout,
     kernel_size |-> ksize, stride |-> stride, padding |-> pad,
     groups |-> groups, dim |-> dim]

norm_layer(in_channels) ==
    Layer("norm_layer", "LayerNorm", in_channels, in_channels, 0, 0, 0, 0, 3)
point_wise1(in_channels, out_channels, stride, pad) ==
    Layer("point_wise1", "PointWise1DConv", in_channels, out_channels, 1, stride, pad, 1, 0)
\* nn.GLU() splits the last axis (dim = -1).
glu_activation == Layer("glu_activation", "GLU", 0, 0, 0, 0, 0, 0, 3)
\* DepthWise1DConv: groups = in_channels; the stride is left at its default 1.
dw_conv(out_channels, pad) ==
    Layer("dw_conv", "DepthWise1DConv", out_channels, out_channels, 1, 1, pad, out_channels, 0)
batch_norm(out_channels) ==
    Layer("batch_norm", "BatchNorm1d", out_channels, out_channels, 0, 0, 0, 0, 0)
swish == Layer("swish", "Swish", 0, 0, 0, 0, 0, 0, 0)
point_wise2(out_channels) ==
    Layer("point_wise2", "PointWise1DConv", out_channels, out_channels, 1, 1, 0, 1, 0)
conv_dropout == Layer("dropout", "Dropout", 0, 0, 0, 0, 0, 0, 0)

\* Variant: batch normalisation chained before the depth-wise convolution.
conv_module_Swapped(in_channels, out_channels, stride, pad) ==
    << norm_layer(in_channels), point_wise1(in_channels, out_channels, stride, pad),
       glu_activation, batch_norm(out_channels), dw_conv(out_channels, pad), swish,
       point_wise2(out_channels), conv_dropout >>
\* self.conv_module = nn.Sequential(...)
conv_module(in_channels, out_channels, stride, pad) ==
    << norm_layer(in_channels), point_wise1(in_channels, out_channels, stride, pad),
       glu_activation, dw_conv(out_channels, pad), batch_norm(out_channels), swish,
       point_wise2(out_channels), conv_dropout >>

\* Shape a layer of the chain produces, <<>> when it raises.
LayerShape(l, mode, s) ==
    CASE l.kind = "LayerNorm" -> LayerNormShape(l.in_channels, s)
      [] l.kind \in {"PointWise1DConv", "DepthWise1DConv"} -> Conv1dShape(l, s)
      [] l.kind = "GLU" -> GLUShape(l.dim, s)
      [] l.kind = "BatchNorm1d" -> BatchNormShape(l.in_channels, mode, s)
      [] OTHER -> s

\* Value a layer of the chain produces.
LayerValue(l, mode, v) ==
    IF l.kind = "Dropout" THEN Dropout(mode, "conv.dropout", v) ELSE Tm(l.name, <<v>>)

\* Variant: the batch counted in evaluation mode as well.
TracksBatch_Always(l, mode) == l.kind = "BatchNorm1d"
\* nn.BatchNorm1d updates its running statistics (running_mean, running_var,
\* num_batches_tracked) in training mode only.
TracksBatch(l, mode) == l.kind = "BatchNorm1d" /\ mode

\* Exception a failing layer raises on shape s: BatchNorm1d's training-mode
\* size check is a ValueError, every other shape failure a RuntimeError.
LayerError(l, s) ==
    IF l.kind = "BatchNorm1d" /\ s[2] = l.in_channels THEN "ValueError" ELSE "RuntimeError"
\* ----------------------------------------- sub-modules of the block
\* ResidualConnection(module, residual_half_step): input + half_step * module(input);
\* a module output of another shape is a shape-mismatch error.
ResidualConnection(h, tin, tout) ==
    IF Failed(tout.shape) \/ tout.shape # tin.shape
    THEN Tensor(<<>>, tout.val)
    ELSE Tensor(tin.shape, Add(tin.val, Scale(h, tout.val)))

\* FeedForwardNet(in_feats, out_feats = in_feats): position-wise, last axis in_feats.
FeedForwardNet(name, in_feats, t) ==
    Tensor(IF t.shape[3] = in_feats THEN t.shape ELSE <<>>, Tm(name, <<t.val>>))

\* self.layer_norm = nn.LayerNorm(normalized_shape = encoder_dim)
layer_norm(dim, t) == Tensor(LayerNormShape(dim, t.shape), Tm("layer_norm", <<t.val>>))

\* self.mha(x, x, x): query, key and value of shape (L, N, E), E = embed_dim.
mha(dim, q, k, v) ==
    Tensor(IF q.shape[3] = dim THEN q.shape ELSE <<>>, Tm("mha", <<q.val, k.val, v.val>>))

\* self.dropout = nn.Dropout(p = dropout)
dropout(mode, t) == Tensor(t.shape, Dropout(mode, "dropout", t.val))

\* out = identity + (1.*out)
AttentionHalfStep == Full
\* Variant: the residual is taken from the normalised x instead of identity.
AttentionResidual_Normed(id, xn, o) ==
    Tensor(id.shape, Add(xn.val, Scale(AttentionHalfStep, o.val)))
AttentionResidual(id, xn, o) ==
    Tensor(id.shape, Add(id.val, Scale(AttentionHalfStep, o.val)))

\* Variant: the second feed-forward wrapper built with a full step.
HalfSteps_FullFf2 == [ff1 |-> Half, conv_module |-> Full, ff2 |-> Full]
\* residual_half_step of the three ResidualConnection wrappers.
HalfSteps == [ff1 |-> Half, conv_module |-> Full, ff2 |-> Half]

\* Variants: the first test never taken; the second test without its `not`.
ConvBeforeAttention_Never(cf) == FALSE
ConvAfterAttention_Same(cf) == cf
\* `if self.conv_first:` and `if not self.conv_first:`
ConvBeforeAttention(cf) == cf
ConvAfterAttention(cf) == ~cf

\* nn.MultiheadAttention(embed_dim, num_heads) asserts that embed_dim is
\* divisible by num_heads; nothing in the constructor looks at dw_ksize.
ConstructorError(dim, heads, ksize) ==
    IF dim % heads # 0 THEN "AssertionError" ELSE "none"

\* apply_conv_first: bool = True
DefaultConvFirst == TRUE
\* --------------------------------------------------- ConvSubSampling
\* Variant: the convolutions built with padding = kernel_size.
sub_chain_Padded(in_channels, out_channels, kernel_size, stride, pad) ==
    << Layer("0", "Conv1d", in_channels, out_channels, kernel_size, stride, kernel_size, 1, 0),
       Layer("1", "ReLU", 0, 0, 0, 0, 0, 0, 0),
       Layer("2", "Conv1d", out_channels, out_channels, kernel_size, stride, kernel_size, 1, 0),
       Layer("3", "ReLU", 0, 0, 0, 0, 0, 0, 0) >>
\* self.chain = nn.Sequential(nn.Conv1d, nn.ReLU, nn.Conv1d, nn.ReLU)
sub_chain(in_channels, out_channels, kernel_size, stride, pad) ==
    << Layer("0", "Conv1d", in_channels, out_channels, kernel_size, stride, pad, 1, 0),
       Layer("1", "ReLU", 0, 0, 0, 0, 0, 0, 0),
       Layer("2", "Conv1d", out_channels, out_channels, kernel_size, stride, pad, 1, 0),
       Layer("3", "ReLU", 0, 0, 0, 0, 0, 0, 0) >>

\* Shape a layer of the sub-sampling chain produces, <<>> when it raises.
SubLayerShape(l, s) == IF l.kind = "Conv1d" THEN Conv1dShape(l, s) ELSE s

\* No ConvSubSampling object yet.
NoSub == [pc |-> "none", chain |-> <<>>, kernel_size |-> 0, stride |-> 0, padding |-> 0,
          input |-> <<>>, x |-> <<>>, step |-> 0]

\* ------------------------------------------------------------- state
Stage(name, h, t) == [name |-> name, hs |-> h, out |-> t]
NoStep == <<0, 1>>

Init ==
    /\ constructed = FALSE
    /\ ctor_error = "none"
    /\ encoder_dim = 0 /\ attention_heads = 0 /\ dw_ksize = 0
    /\ conv_model_stride = 0 /\ padding = 0
    /\ conv_first = FALSE /\ flag_given = FALSE
    /\ residual_half_step = [ff1 |-> NoStep, conv_module |-> NoStep, ff2 |-> NoStep]
    /\ training = TRUE
    /\ num_batches_tracked = 0
    /\ pc = "idle"
    /\ input = NoTensor /\ x = NoTensor /\ identity = NoTensor /\ out = NoTensor
    /\ ret_var = "none" /\ cstep = 0
    /\ cur = NoTensor /\ c_identity = NoTensor /\ conv_output = NoTensor
    /\ stages = <<>> /\ conv_stages = <<>>
    /\ raised = "none"
    /\ sub = NoSub

\* ConformerBlock.__init__: flag is "unset" when apply_conv_first is not passed.
\* pad is the padding the ConvolutionModule is built with.
Construct(dim, heads, ksize, stride, pad, flag) ==
    /\ ~constructed
    /\ ctor_error' = ConstructorError(dim, heads, ksize)
    /\ constructed' = (ctor_error' = "none")
    /\ IF ctor_error' = "none"
       THEN /\ encoder_dim' = dim /\ attention_heads' = heads /\ dw_ksize' = ksize
            /\ conv_model_stride' = stride /\ padding' = pad
            /\ conv_first' = (IF flag = "unset" THEN DefaultConvFirst ELSE flag = "true")
            /\ flag_given' = (flag # "unset")
            /\ residual_half_step' = HalfSteps
       ELSE UNCHANGED <<encoder_dim, attention_heads, dw_ksize, conv_model_stride,
                        padding, conv_first, flag_given, residual_half_step>>
    /\ UNCHANGED <<sub, training, num_batches_tracked, call_vars>>

\* nn.Module.train() / nn.Module.eval(), between forward calls; the frame of
\* the finished call is gone by then.
SetMode(mode) ==
    /\ constructed
    /\ pc \in {"idle", "done", "raised"}
    /\ training # mode
    /\ training' = mode
    /\ pc' = "idle"
    /\ input' = NoTensor /\ x' = NoTensor /\ identity' = NoTensor /\ out' = NoTensor
    /\ ret_var' = "none" /\ cstep' = 0
    /\ cur' = NoTensor /\ c_identity' = NoTensor /\ conv_output' = NoTensor
    /\ stages' = <<>> /\ conv_stages' = <<>>
    /\ raised' = "none"
    /\ UNCHANGED <<sub, cfg_vars, num_batches_tracked>>

\* A caller invokes block(x) with x of shape [b, t, d].
Forward(b, t, d) ==
    /\ constructed
    /\ pc \in {"idle", "done", "raised"}
    /\ num_batches_tracked < MaxTracked
    /\ pc' = "L87"
    /\ input' = InputTensor(b, t, d)
    /\ x' = input'
    /\ identity' = NoTensor /\ out' = NoTensor
    /\ ret_var' = "none" /\ cstep' = 0
    /\ cur' = NoTensor /\ c_identity' = NoTensor /\ conv_output' = NoTensor
    /\ stages' = <<>> /\ conv_stages' = <<>>
    /\ raised' = "none"
    /\ UNCHANGED <<sub, cfg_vars, training, num_batches_tracked>>

\* The forward call ends with exception e.
Raise(e) ==
    /\ pc' = "raised"
    /\ raised' = e
    /\ UNCHANGED <<input, x, identity, out, ret_var, cstep, cur, c_identity,
                   conv_output, stages, conv_stages>>

\* self.conv_module(arg) is entered; its result will be bound to local `to`.
EnterConv(arg, to) ==
    /\ pc' = "conv"
    /\ cstep' = 1
    /\ cur' = arg
    /\ c_identity' = arg
    /\ ret_var' = to
    /\ UNCHANGED <<input, x, identity, out, conv_output, stages, conv_stages, raised>>

\* x = self.ff1(x)
Stmt_ff1 ==
    /\ pc = "L87"
    /\ LET r == ResidualConnection(residual_half_step.ff1, x,
                                   FeedForwardNet("ff1", encoder_dim, x))
       IN IF Failed(r.shape)
          THEN Raise("RuntimeError")
          ELSE /\ x' = r
               /\ stages' = Append(stages, Stage("ff1", residual_half_step.ff1, r))
               /\ pc' = "L89"
               /\ UNCHANGED <<input, identity, out, ret_var, cstep, cur, c_identity,
                              conv_output, conv_stages, raised>>
    /\ UNCHANGED <<sub, cfg_vars, training, num_batches_tracked>>

\* if self.conv_first: x = self.conv_module(x)
Stmt_conv_first ==
    /\ pc = "L89"
    /\ IF ConvBeforeAttention(conv_first)
       THEN EnterConv(x, "x")
       ELSE /\ pc' = "L93"
            /\ UNCHANGED <<input, x, identity, out, ret_var, cstep, cur, c_identity,
                           conv_output, stages, conv_stages, raised>>
    /\ UNCHANGED <<sub, cfg_vars, training, num_batches_tracked>>
\* The block's ConvolutionModule(in_channels = encoder_dim, out_channels = encoder_dim, ...)
BlockConv == conv_module(encoder_dim, encoder_dim, conv_model_stride, padding)

\* One layer of self.conv_module(x), the nn.Sequential chain.  BatchNorm1d
\* counts the batch in training mode before it normalises it.
ConvStep ==
    /\ pc = "conv"
    /\ cstep \in 1..Len(BlockConv)
    /\ LET l == BlockConv[cstep]
           s == LayerShape(l, training, cur.shape)
       IN /\ num_batches_tracked' =
                 IF TracksBatch(l, training)
                 THEN num_batches_tracked + 1 ELSE num_batches_tracked
          /\ IF Failed(s)
             THEN Raise(LayerError(l, cur.shape))
             ELSE /\ cur' = Tensor(s, LayerValue(l, training, cur.val))
                  /\ conv_stages' = Append(conv_stages,
                         [name |-> l.name, layer |-> l, in |-> cur.shape, out |-> s])
                  /\ cstep' = cstep + 1
                  /\ UNCHANGED <<pc, input, x, identity, out, ret_var, c_identity,
                                 conv_output, stages, raised>>
    /\ UNCHANGED <<sub, cfg_vars, training>>

\* ConvolutionModule.forward: return identity + conv_output
ConvModuleReturn ==
    /\ pc = "conv"
    /\ cstep = Len(BlockConv) + 1
    /\ LET s == BroadcastShape(c_identity.shape, cur.shape)
       IN IF Failed(s)
          THEN Raise("RuntimeError")
          ELSE /\ conv_output' = cur
               /\ cur' = Tensor(s, Add(c_identity.val, cur.val))
               /\ cstep' = cstep + 1
               /\ UNCHANGED <<pc, input, x, identity, out, ret_var, c_identity,
                              stages, conv_stages, raised>>
    /\ UNCHANGED <<sub, cfg_vars, training, num_batches_tracked>>

\* The ResidualConnection around the ConvolutionModule returns to forward.
ResidualReturn ==
    /\ pc = "conv"
    /\ cstep = Len(BlockConv) + 2
    /\ LET r == ResidualConnection(residual_half_step.conv_module, c_identity, cur)
       IN IF Failed(r.shape)
          THEN Raise("ShapeMismatchError")
          ELSE /\ IF ret_var = "x"
                  THEN x' = r /\ out' = out /\ pc' = "L93"
                  ELSE out' = r /\ x' = x /\ pc' = "L105"
               /\ stages' = Append(stages,
                      Stage("conv_module", residual_half_step.conv_module, r))
               /\ cstep' = 0
               /\ UNCHANGED <<input, identity, ret_var, cur, c_identity, conv_output,
                              conv_stages, raised>>
    /\ UNCHANGED <<sub, cfg_vars, training, num_batches_tracked>>

\* identity = x
Stmt_identity ==
    /\ pc = "L93"
    /\ identity' = x
    /\ pc' = "L94"
    /\ UNCHANGED <<input, x, out, ret_var, cstep, cur, c_identity, conv_output,
                   stages, conv_stages, raised>>
    /\ UNCHANGED <<sub, cfg_vars, training, num_batches_tracked>>

\* x = self.layer_norm(x)
Stmt_layer_norm ==
    /\ pc = "L94"
    /\ LET r == layer_norm(encoder_dim, x)
       IN IF Failed(r.shape)
          THEN Raise("RuntimeError")
          ELSE /\ x' = r
               /\ pc' = "L95"
               /\ UNCHANGED <<input, identity, out, ret_var, cstep, cur, c_identity,
                              conv_output, stages, conv_stages, raised>>
    /\ UNCHANGED <<sub, cfg_vars, training, num_batches_tracked>>

\* out, _ = self.mha(x, x, x)
Stmt_mha ==
    /\ pc = "L95"
    /\ LET r == mha(encoder_dim, x, x, x)
       IN IF Failed(r.shape)
          THEN Raise("RuntimeError")
          ELSE /\ out' = r
               /\ pc' = "L96"
               /\ UNCHANGED <<input, x, identity, ret_var, cstep, cur, c_identity,
                              conv_output, stages, conv_stages, raised>>
    /\ UNCHANGED <<sub, cfg_vars, training, num_batches_tracked>>

\* out = self.dropout(out)
Stmt_dropout ==
    /\ pc = "L96"
    /\ out' = dropout(training, out)
    /\ pc' = "L97"
    /\ UNCHANGED <<input, x, identity, ret_var, cstep, cur, c_identity, conv_output,
                   stages, conv_stages, raised>>
    /\ UNCHANGED <<sub, cfg_vars, training, num_batches_tracked>>

\* out = identity + (1.*out)
Stmt_residual ==
    /\ pc = "L97"
    /\ out' = AttentionResidual(identity, x, out)
    /\ stages' = Append(stages, Stage("mha", AttentionHalfStep, out'))
    /\ pc' = "L100"
    /\ UNCHANGED <<input, x, identity, ret_var, cstep, cur, c_identity, conv_output,
                   conv_stages, raised>>
    /\ UNCHANGED <<sub, cfg_vars, training, num_batches_tracked>>

\* if not self.conv_first: out = self.conv_module(out)
Stmt_conv_after ==
    /\ pc = "L100"
    /\ IF ConvAfterAttention(conv_first)
       THEN EnterConv(out, "out")
       ELSE /\ pc' = "L105"
            /\ UNCHANGED <<input, x, identity, out, ret_var, cstep, cur, c_identity,
                           conv_output, stages, conv_stages, raised>>
    /\ UNCHANGED <<sub, cfg_vars, training, num_batches_tracked>>

\* out = self.ff2(out)
Stmt_ff2 ==
    /\ pc = "L105"
    /\ LET r == ResidualConnection(residual_half_step.ff2, out,
                                   FeedForwardNet("ff2", encoder_dim, out))
       IN IF Failed(r.shape)
          THEN Raise("RuntimeError")
          ELSE /\ out' = r
               /\ stages' = Append(stages, Stage("ff2", residual_half_step.ff2, r))
               /\ pc' = "L108"
               /\ UNCHANGED <<input, x, identity, ret_var, cstep, cur, c_identity,
                              conv_output, conv_stages, raised>>
    /\ UNCHANGED <<sub, cfg_vars, training, num_batches_tracked>>

\* out = self.layer_norm(out); return out
Stmt_final_norm ==
    /\ pc = "L108"
    /\ LET r == layer_norm(encoder_dim, out)
       IN IF Failed(r.shape)
          THEN Raise("RuntimeError")
          ELSE /\ out' = r
               /\ stages' = Append(stages, Stage("layer_norm", NoStep, r))
               /\ pc' = "done"
               /\ UNCHANGED <<input, x, identity, ret_var, cstep, cur, c_identity,
                              conv_output, conv_stages, raised>>
    /\ UNCHANGED <<sub, cfg_vars, training, num_batches_tracked>>

\* ------------------------------------------------------ specification
Dims == 1..MaxDim
Flags == {"unset", "true", "false"}
KSizes == {DefaultDwKsize, DefaultDwKsize - 1}

Next ==
    \/ \E dim \in Dims, heads \in 1..MaxHeads, ksize \in KSizes,
          stride \in 1..MaxStride, pad \in 0..MaxPadding, flag \in Flags :
          Construct(dim, heads, ksize, stride, pad, flag)
    \/ \E mode \in BOOLEAN : SetMode(mode)
    \/ \E b \in 1..MaxBatch, t \in 1..MaxTime, d \in Dims : Forward(b, t, d)
    \/ Stmt_ff1
    \/ Stmt_conv_first
    \/ ConvStep
    \/ ConvModuleReturn
    \/ ResidualReturn
    \/ Stmt_identity
    \/ Stmt_layer_norm
    \/ Stmt_mha
    \/ Stmt_dropout
    \/ Stmt_residual
    \/ Stmt_conv_after
    \/ Stmt_ff2
    \/ Stmt_final_norm

Spec == Init /\ [][Next]_vars

\* ---------------------------------- specification of the front end
block_vars == <<cfg_vars, training, num_batches_tracked, call_vars>>

\* ConvSubSampling.__init__(in_channels, out_channels, kernel_size, stride, padding)
SubConstruct(cin, cout, ksize, stride, pad) ==
    /\ sub.pc = "none"
    /\ sub' = [NoSub EXCEPT !.pc = "idle",
                            !.chain = sub_chain(cin, cout, ksize, stride, pad),
                            !.kernel_size = ksize, !.stride = stride, !.padding = pad]
    /\ UNCHANGED block_vars

\* A caller invokes subsampling(x) with x of shape [b, c, len].
SubForward(b, c, len) ==
    /\ sub.pc \in {"idle", "done", "raised"}
    /\ sub' = [sub EXCEPT !.pc = "chain", !.input = <<b, c, len>>,
                          !.x = <<b, c, len>>, !.step = 1]
    /\ UNCHANGED block_vars

\* return self.chain(x): one layer of the nn.Sequential.
SubStep ==
    /\ sub.pc = "chain"
    /\ sub.step \in 1..Len(sub.chain)
    /\ LET s == SubLayerShape(sub.chain[sub.step], sub.x)
       IN sub' = IF Failed(s)
                 THEN [sub EXCEPT !.pc = "raised"]
                 ELSE [sub EXCEPT !.x = s, !.step = sub.step + 1,
                                  !.pc = IF sub.step = Len(sub.chain) THEN "done" ELSE "chain"]
    /\ UNCHANGED block_vars

SubNext ==
    \/ \E cin \in 1..MaxChannels, cout \in 1..MaxChannels, ksize \in 1..MaxKernel,
          stride \in 1..MaxStride, pad \in 0..MaxPadding :
          SubConstruct(cin, cout, ksize, stride, pad)
    \/ \E b \in 1..MaxBatch, c \in 1..MaxChannels, len \in 1..MaxLen : SubForward(b, c, len)
    \/ SubStep

SubSpec == Init /\ [][SubNext]_vars
\* ------------------------------------------------------------ claims
IsPrefix(s, t) == Len(s) <= Len(t) /\ \A i \in 1..Len(s) : s[i] = t[i]
StageTrace == [i \in 1..Len(stages) |-> <<stages[i].name, stages[i].hs>>]
StageNames == {stages[i].name : i \in 1..Len(stages)}
KindTrace == [i \in 1..Len(conv_stages) |-> conv_stages[i].layer.kind]
ConvKinds == {"PointWise1DConv", "DepthWise1DConv"}
\* Value that entered stage i of the block.
StageInput(i) == IF i = 1 THEN input ELSE stages[i - 1].out
\* A block in a configuration the construction contract admits.
ValidBlock == constructed /\ encoder_dim % attention_heads = 0 /\ dw_ksize % 2 = 1

DefaultOrder ==
    << <<"ff1", <<1, 2>> >>, <<"mha", <<1, 1>> >>, <<"conv_module", <<1, 1>> >>,
       <<"ff2", <<1, 2>> >>, <<"layer_norm", <<0, 1>> >> >>
ConvFirstOrder ==
    << <<"ff1", <<1, 2>> >>, <<"conv_module", <<1, 1>> >>, <<"mha", <<1, 1>> >>,
       <<"ff2", <<1, 2>> >>, <<"layer_norm", <<0, 1>> >> >>

\* C1: with conv_first false, the stages a forward call has applied are always
\* the beginning of  ff1 (1/2), self-attention (1), convolution (1), ff2 (1/2),
\* final normalisation,  and a call that returns has applied exactly these.
C1_DefaultOrder ==
    (constructed /\ ~conv_first /\ pc # "idle") =>
        /\ IsPrefix(StageTrace, DefaultOrder)
        /\ (pc = "done" => StageTrace = DefaultOrder)
C1_Witness == constructed /\ ~conv_first /\ pc = "done"

\* C2: with conv_first true, the stages a forward call has applied are always
\* the beginning of  ff1 (1/2), convolution (1), self-attention (1), ff2 (1/2),
\* final normalisation,  and a call that returns has applied exactly these: the
\* convolution once, neither twice nor never.
C2_ConvFirstOrder ==
    (constructed /\ conv_first /\ pc # "idle") =>
        /\ IsPrefix(StageTrace, ConvFirstOrder)
        /\ (pc = "done" =>
               /\ StageTrace = ConvFirstOrder
               /\ Cardinality({i \in 1..Len(stages) : stages[i].name = "conv_module"}) = 1)
C2_Witness == constructed /\ conv_first /\ pc = "done"

\* C3: for an input [batch, time, encoder_dim] of the configured width, under
\* either ordering, the forward call does not raise and every stage's output,
\* the block's output included, has the input's shape.
C3_ShapePreserved ==
    (ValidBlock /\ pc # "idle" /\ input.shape[3] = encoder_dim) =>
        /\ raised = "none"
        /\ \A i \in 1..Len(stages) : stages[i].out.shape = input.shape

\* C4: no block exists whose encoder_dim is not a multiple of attention_heads
\* or whose depth-wise kernel size is even, and a rejected construction is
\* rejected with a ConfigurationError.
C4_InvalidConfigRejected ==
    /\ constructed => (encoder_dim % attention_heads = 0 /\ dw_ksize % 2 = 1)
    /\ ctor_error \in {"none", "ConfigurationError"}

\* C5: in every constructed block the half-step multipliers are 1/2 for both
\* feed-forward wrappers and 1 for the convolution wrapper, whatever forward
\* calls have run, and every stage applied used 1/2 (feed-forward) or 1
\* (attention, convolution).
C5_HalfStepsFixed ==
    constructed =>
        /\ residual_half_step = [ff1 |-> <<1, 2>>, conv_module |-> <<1, 1>>, ff2 |-> <<1, 2>>]
        /\ \A i \in 1..Len(stages) :
              /\ stages[i].name \in {"ff1", "ff2"} => stages[i].hs = <<1, 2>>
              /\ stages[i].name \in {"mha", "conv_module"} => stages[i].hs = <<1, 1>>
C5_Witness == constructed /\ pc = "done" /\ Len(stages) = 5

ConvPipelineOrder ==
    <<"LayerNorm", "PointWise1DConv", "GLU", "DepthWise1DConv", "BatchNorm1d",
      "Swish", "PointWise1DConv", "Dropout">>

\* C6: the layers the convolution module has run are always the beginning of
\* normalise, point-wise conv, GLU, depth-wise conv, batch norm, Swish,
\* point-wise conv, dropout,  and a finished pipeline has run exactly these.
C6_ConvPipelineOrder ==
    (constructed /\ pc # "idle") =>
        /\ IsPrefix(KindTrace, ConvPipelineOrder)
        /\ ((pc = "conv" /\ cstep > 8) \/ "conv_module" \in StageNames
               => KindTrace = ConvPipelineOrder)
C6_Witness == pc = "conv" /\ cstep = 9 /\ Len(conv_stages) = 8

\* C7: the first point-wise convolution outputs 2 * encoder_dim channels, the
\* GLU splits the channel axis (axis 2 of [batch, channel, time]) and outputs
\* encoder_dim channels, and the depth-wise convolution receives encoder_dim
\* channels with groups = encoder_dim.
C7_ChannelWidths ==
    ValidBlock => \A i \in 1..Len(conv_stages) :
        LET e == conv_stages[i]
        IN /\ e.name = "point_wise1" => e.out[2] = 2 * encoder_dim
           /\ e.name = "glu_activation" => (e.layer.dim = 2 /\ e.out[2] = encoder_dim)
           /\ e.name = "dw_conv" => (e.in[2] = encoder_dim /\ e.layer.groups = encoder_dim)

\* C8: with the padding that matches the depth-wise kernel (0 for the kernel
\* of size 1 the module builds) and stride 1, the length axis after every
\* convolution layer of the module, and of the pipeline's output, equals the
\* length of the module's input.
C8_TimePreserved ==
    (ValidBlock /\ pc # "idle" /\ padding = 0 /\ conv_model_stride = 1) =>
        /\ \A i \in 1..Len(conv_stages) :
              conv_stages[i].layer.kind \in ConvKinds
                  => conv_stages[i].out[3] = c_identity.shape[3]
        /\ (pc = "conv" /\ cstep > 8) => cur.shape[3] = c_identity.shape[3]

\* C9: the convolution stage returns  input + 1 * pipeline(input):  the
\* stage's input appears in the sum once.
C9_SingleResidual ==
    ValidBlock => \A i \in 1..Len(stages) :
        stages[i].name = "conv_module" =>
            stages[i].out.val = Add(StageInput(i).val, Scale(<<1, 1>>, conv_output.val))

\* C10: the self-attention stage returns  x + 1 * dropout(attention(normalize(x)))
\* for the value x that entered the stage: attention reads the normalised x,
\* dropout acts on the attention output, the residual adds the un-normalised x.
C10_PreNormAttention ==
    \A i \in 1..Len(stages) :
        stages[i].name = "mha" =>
            LET v == StageInput(i).val
                n == Tm("layer_norm", <<v>>)
                a == Tm("mha", <<n, n, n>>)
                d == IF training THEN Tm("dropout", <<a>>) ELSE a
            IN stages[i].out.val = Add(v, Scale(<<1, 1>>, d))
C10_Witness == pc = "L100" /\ training /\ stages[Len(stages)].name = "mha"
\* C11 as stated: whatever kernel size, stride and padding the sub-sampler was
\* built with, a call that returns gives a time length strictly below the
\* input's.
C11_AlwaysShorter ==
    sub.pc = "done" => sub.x[3] < sub.input[3]

\* C11 amended: when twice the padding is less than kernel_size - 1 (the
\* defaults, kernel 3 and padding 0, included), a call that returns gives a
\* time length strictly below the input's, for any stride.
C11_ShorterWhenKernelExceedsPadding ==
    (sub.pc = "done" /\ 2 * sub.padding < sub.kernel_size - 1) =>
        sub.x[3] < sub.input[3]
C11_Witness ==
    /\ sub.pc = "done" /\ sub.kernel_size = 3 /\ sub.padding = 0 /\ sub.stride = 2
    /\ sub.input[3] = 7 /\ sub.x[3] = 1
\* A step of a forward call of a constructed block (entering it, one of its
\* statements, or its raising); train()/eval() leave pc at "idle".
ForwardStep == constructed /\ pc' # "idle"

\* C12 as stated: no step of a forward call, in training or in inference mode,
\* succeeding or failing, changes the block's configuration, half-steps, mode
\* or normalisation running statistics.
C12_ForwardChangesNothing ==
    [][ForwardStep =>
          /\ cfg_vars' = cfg_vars
          /\ training' = training
          /\ num_batches_tracked' = num_batches_tracked]_vars

\* C12 amended: no step of a forward call changes the block's configuration,
\* half-steps or mode; in inference mode it leaves the batch-normalisation
\* running statistics unchanged too, and in training mode the only step that
\* changes them is the batch-normalisation layer of the convolution module.
C12_ForwardChangesOnlyTrainingStatistics ==
    [][ForwardStep =>
          /\ cfg_vars' = cfg_vars
          /\ training' = training
          /\ (num_batches_tracked' # num_batches_tracked =>
                 /\ training
                 /\ pc = "conv" /\ cstep = 5
                 /\ num_batches_tracked' = num_batches_tracked + 1)]_vars
C12_Witness ==
    ~training /\ pc = "done" /\ Len(conv_stages) = 8 /\ num_batches_tracked = 0

\* C13: a block constructed without the ordering flag enters its convolution
\* stage only after the self-attention stage has been applied.
C13_DefaultAttentionFirst ==
    (ValidBlock /\ ~flag_given /\ pc = "conv") => "mha" \in StageNames
====
